---- MODULE Spec2Model ----
(***************************************************************************)
(* Model of src/project.py: the ReliefItem record, the FractionalKnapsack  *)
(* solver (constructor and solve), a caller that builds an item list and a *)
(* solver and calls solve, and the run_test_cases harness.                 *)
(*                                                                         *)
(* Numbers: Python floats are modelled as exact rationals, records         *)
(* [num, den] in lowest terms with den > 0.  Rounding, infinities and NaN  *)
(* are outside the model.                                                  *)
(*                                                                         *)
(* Object identity: sorted_items holds references to the caller's items,   *)
(* modelled as indices into items.  alloc_src and unalloc_src are history  *)
(* variables: the index of the item each output record was made from (the  *)
(* code's records carry only the name).                                    *)
(***************************************************************************)
EXTENDS Integers, Sequences, FiniteSets

VARIABLES items, solver, error, last_call, pc,
          sorted_items, idx, total_value, allocations, unallocated,
          remaining_capacity, alloc_src, unalloc_src,
          result, prev, test_i, verdicts

vars == <<items, solver, error, last_call, pc,
          sorted_items, idx, total_value, allocations, unallocated,
          remaining_capacity, alloc_src, unalloc_src,
          result, prev, test_i, verdicts>>

locals == <<sorted_items, idx, total_value, allocations, unallocated,
            remaining_capacity>>

(* ---------------------------- bounds ----------------------------------- *)

MaxItems == 3

MaxValue == 2

MaxWeight == 2

MaxCapacity == 3

(* ------------------------ rational arithmetic -------------------------- *)

Abs(x) == IF x < 0 THEN 0 - x ELSE x

RECURSIVE GCD(_, _)
GCD(a, b) == IF b = 0 THEN a ELSE GCD(b, a % b)

Rat(n, d) ==
    LET s == IF d < 0 THEN 0 - 1 ELSE 1
        g == GCD(Abs(n), Abs(d))
    IN  [num |-> (s * n) \div g, den |-> (s * d) \div g]

R(k) == [num |-> k, den |-> 1]

Zero == R(0)

One == R(1)

Add(a, b) == Rat(a.num * b.den + b.num * a.den, a.den * b.den)

Sub(a, b) == Rat(a.num * b.den - b.num * a.den, a.den * b.den)

Mul(a, b) == Rat(a.num * b.num, a.den * b.den)

Div(a, b) == Rat(a.num * b.den, a.den * b.num)

Leq(a, b) == a.num * b.den <= b.num * a.den

Lt(a, b) == a.num * b.den < b.num * a.den

AbsR(a) == [num |-> Abs(a.num), den |-> a.den]

(* ----------------------------- ReliefItem ------------------------------ *)

NoError == [text |-> "", arg |-> ""]

ValueError(text, arg) == [text |-> text, arg |-> arg]

\* post_init with the two checks in the other order
post_init_value_first(name, value, weight) ==
    IF Leq(value, Zero) THEN ValueError("Value must be positive for ", name)
    ELSE IF Leq(weight, Zero) THEN ValueError("Weight must be positive for ", name)
    ELSE NoError

\* ReliefItem.__post_init__: the exception raised, or NoError.
post_init(name, value, weight) ==
    IF Leq(weight, Zero) THEN ValueError("Weight must be positive for ", name)
    ELSE IF Leq(value, Zero) THEN ValueError("Value must be positive for ", name)
    ELSE NoError

ReliefItem(name, value, weight) == [name |-> name, value |-> value, weight |-> weight]

\* ReliefItem.ratio (weight # 0)
ratio(item) == Div(item.value, item.weight)

(* -------------------------- FractionalKnapsack ------------------------- *)

NoSolver == [none |-> TRUE]

\* init_error with capacity < 0 for capacity <= 0
init_error_accepts_zero(capacity) ==
    IF Lt(capacity, Zero) THEN ValueError("Capacity must be positive", "")
    ELSE NoError

\* FractionalKnapsack.__init__: the exception raised, or NoError.
init_error(capacity) ==
    IF Leq(capacity, Zero) THEN ValueError("Capacity must be positive", "")
    ELSE NoError

FractionalKnapsack(capacity) == [capacity |-> capacity]

\* sorted(..., key=ratio, reverse=True) is stable: an element goes after every
\* element whose ratio is >= its own.  s is a sequence of indices into its.
RECURSIVE InsertDescUnstable(_, _, _)
\* InsertDesc that puts an element before the elements of equal ratio
InsertDescUnstable(its, s, k) ==
    IF s = <<>> THEN <<k>>
    ELSE IF Leq(ratio(its[Head(s)]), ratio(its[k])) THEN <<k>> \o s
    ELSE <<Head(s)>> \o InsertDescUnstable(its, Tail(s), k)

RECURSIVE InsertDesc(_, _, _)
InsertDesc(its, s, k) ==
    IF s = <<>> THEN <<k>>
    ELSE IF Lt(ratio(its[Head(s)]), ratio(its[k])) THEN <<k>> \o s
    ELSE <<Head(s)>> \o InsertDesc(its, Tail(s), k)

RECURSIVE SortPrefix(_, _)
SortPrefix(its, n) ==
    IF n = 0 THEN <<>> ELSE InsertDesc(its, SortPrefix(its, n - 1), n)

\* sorted_by_ratio without the sort
input_order(its) == [k \in 1 .. Len(its) |-> k]

sorted_by_ratio(its) == SortPrefix(its, Len(its))

Allocation(name, weight_allocated, fraction, value_gained, rt) ==
    [name |-> name, weight_allocated |-> weight_allocated, fraction |-> fraction,
     value_gained |-> value_gained, ratio |-> rt]

Unallocated(name, weight, value, rt, fraction_unallocated) ==
    [name |-> name, weight |-> weight, value |-> value, ratio |-> rt,
     fraction_unallocated |-> fraction_unallocated]

\* lines 82-88: the entry for an item that gets nothing
skipped_entry(item) ==
    Unallocated(item.name, item.weight, item.value, ratio(item), One)

\* lines 93-99: the allocation of a whole item
full_allocation(item) ==
    Allocation(item.name, item.weight, One, item.value, ratio(item))

\* partial_allocation recording the item's whole weight as allocated
partial_allocation_overweight(item, remaining) ==
    LET fraction == Div(remaining, item.weight)
    IN  Allocation(item.name, item.weight, fraction, Mul(item.value, fraction),
                   ratio(item))

\* lines 105-114: the allocation of the part of item that fits in remaining
partial_allocation(item, remaining) ==
    LET fraction == Div(remaining, item.weight)
    IN  Allocation(item.name, remaining, fraction, Mul(item.value, fraction),
                   ratio(item))

\* partial_unallocated reporting the item's whole weight and value as left over
partial_unallocated_unscaled(item, remaining) ==
    LET fraction == Div(remaining, item.weight)
    IN  Unallocated(item.name, item.weight, item.value, ratio(item),
                    Sub(One, fraction))

\* lines 119-125: the entry for the part of item that does not fit
partial_unallocated(item, remaining) ==
    LET fraction == Div(remaining, item.weight)
    IN  Unallocated(item.name, Mul(item.weight, Sub(One, fraction)),
                    Mul(item.value, Sub(One, fraction)), ratio(item),
                    Sub(One, fraction))

\* remaining_after_fraction without the reset of line 127
remaining_after_fraction_kept(remaining) == remaining

\* line 127: what is left after a partial allocation
remaining_after_fraction(remaining) == Zero

NoResult == [none |-> TRUE]

Result(tv, allocs, unalloc) ==
    [total_value |-> tv, allocations |-> allocs, unallocated |-> unalloc]

(* ------------------------- run_test_cases data ------------------------- *)

Item(name, v, w) == ReliefItem(name, R(v), R(w))

TestCases ==
    << [name |-> "Edge Case: Zero Capacity",
        items |-> <<Item("Item1", 10, 5)>>,
        capacity |-> R(0), expected_value |-> R(0)],
       [name |-> "Edge Case: Empty Items",
        items |-> <<>>,
        capacity |-> R(100), expected_value |-> R(0)],
       [name |-> "Standard Case: All Items Fit",
        items |-> <<Item("A", 60, 10), Item("B", 100, 20)>>,
        capacity |-> R(50), expected_value |-> R(160)],
       [name |-> "Fractional Case: Partial Item",
        items |-> <<Item("A", 60, 10), Item("B", 100, 20), Item("C", 120, 30)>>,
        capacity |-> R(50), expected_value |-> R(240)] >>

Tolerance == Rat(1, 100)

(* ------------------------------- inputs -------------------------------- *)

\* The caller labels the k-th item of its list; items 1 and 3 share a label.
ItemName(k) == IF k % 2 = 1 THEN "A" ELSE "B"

ValueInputs == {R(k) : k \in (0 - 1) .. MaxValue}

WeightInputs == {R(k) : k \in (0 - 1) .. MaxWeight}

CapacityInputs == {R(k) : k \in (0 - 1) .. MaxCapacity}

(* -------------------------------- Init --------------------------------- *)

NoCall == [fn |-> "none"]

Init ==
    /\ items = <<>>
    /\ solver = NoSolver
    /\ error = NoError
    /\ last_call = NoCall
    /\ pc = "main"
    /\ sorted_items = <<>>
    /\ idx = 0
    /\ total_value = Zero
    /\ allocations = <<>>
    /\ unallocated = <<>>
    /\ remaining_capacity = Zero
    /\ alloc_src = <<>>
    /\ unalloc_src = <<>>
    /\ result = NoResult
    /\ prev = NoResult
    /\ test_i = 0
    /\ verdicts = <<>>

(* ------------------------------ the caller ----------------------------- *)

\* items.append(ReliefItem(name, value, weight)); an exception ends the program.
NewItem ==
    /\ pc = "main" /\ test_i = 0 /\ solver = NoSolver
    /\ Len(items) < MaxItems
    /\ \E value \in ValueInputs, weight \in WeightInputs :
         LET name == ItemName(Len(items) + 1)
             e == post_init(name, value, weight)
         IN  /\ last_call' = [fn |-> "ReliefItem", name |-> name,
                              value |-> value, weight |-> weight]
             /\ error' = e
             /\ IF e = NoError
                THEN /\ items' = Append(items, ReliefItem(name, value, weight))
                     /\ pc' = pc
                ELSE /\ items' = items
                     /\ pc' = "raised"
    /\ UNCHANGED <<solver, locals, alloc_src, unalloc_src, result, prev,
                   test_i, verdicts>>

\* solver = FractionalKnapsack(capacity); an exception ends the program.
NewSolver ==
    /\ pc = "main" /\ test_i = 0 /\ solver = NoSolver
    /\ \E capacity \in CapacityInputs :
         LET e == init_error(capacity)
         IN  /\ last_call' = [fn |-> "FractionalKnapsack", capacity |-> capacity]
             /\ error' = e
             /\ IF e = NoError
                THEN /\ solver' = FractionalKnapsack(capacity)
                     /\ pc' = pc
                ELSE /\ solver' = solver
                     /\ pc' = "raised"
    /\ UNCHANGED <<items, locals, alloc_src, unalloc_src, result, prev,
                   test_i, verdicts>>

(* -------------------------------- solve -------------------------------- *)

ReturnTo == IF test_i = 0 THEN "main" ELSE "test_check"

\* solve, lines 68-77: the empty case returns at once; otherwise sort and
\* initialise.  Reading ratio of an item of weight 0 raises ZeroDivisionError.
SolveBegin ==
    /\ \/ pc = "main" /\ test_i = 0 /\ solver # NoSolver
       \/ pc = "test_solve"
    /\ IF items = <<>>
       THEN /\ result' = Result(Zero, <<>>, <<>>)
            /\ prev' = result
            /\ pc' = ReturnTo
            /\ alloc_src' = <<>>
            /\ unalloc_src' = <<>>
            /\ UNCHANGED <<locals, error>>
       ELSE IF \E k \in 1 .. Len(items) : items[k].weight = Zero
       THEN /\ error' = [text |-> "ZeroDivisionError", arg |-> ""]
            /\ pc' = "raised"
            /\ UNCHANGED <<locals, alloc_src, unalloc_src, result, prev>>
       ELSE /\ sorted_items' = sorted_by_ratio(items)
            /\ total_value' = Zero
            /\ allocations' = <<>>
            /\ unallocated' = <<>>
            /\ remaining_capacity' = solver.capacity
            /\ idx' = 1
            /\ alloc_src' = <<>>
            /\ unalloc_src' = <<>>
            /\ pc' = "loop"
            /\ UNCHANGED <<error, result, prev>>
    /\ UNCHANGED <<items, solver, last_call, test_i, verdicts>>

InLoop == pc = "loop" /\ idx <= Len(sorted_items)

\* lines 80-89: no capacity left, the item is completely unallocated
SkipItem ==
    /\ InLoop
    /\ LET item == items[sorted_items[idx]]
       IN  /\ Leq(remaining_capacity, Zero)
           /\ unallocated' = Append(unallocated, skipped_entry(item))
           /\ unalloc_src' = Append(unalloc_src, sorted_items[idx])
    /\ idx' = idx + 1
    /\ UNCHANGED <<items, solver, error, last_call, pc, sorted_items, total_value,
                   allocations, remaining_capacity, alloc_src, result, prev,
                   test_i, verdicts>>

\* TakeFull counting down the solver's own capacity field
TakeFullOnSolverCapacity ==
    /\ InLoop
    /\ LET item == items[sorted_items[idx]]
       IN  /\ ~Leq(remaining_capacity, Zero)
           /\ Leq(item.weight, remaining_capacity)
           /\ allocations' = Append(allocations, full_allocation(item))
           /\ alloc_src' = Append(alloc_src, sorted_items[idx])
           /\ remaining_capacity' = Sub(remaining_capacity, item.weight)
           /\ solver' = FractionalKnapsack(Sub(remaining_capacity, item.weight))
           /\ total_value' = Add(total_value, item.value)
    /\ idx' = idx + 1
    /\ UNCHANGED <<items, error, last_call, pc, sorted_items, unallocated,
                   unalloc_src, result, prev, test_i, verdicts>>

\* lines 91-102: the item fits, take it whole
TakeFull ==
    /\ InLoop
    /\ LET item == items[sorted_items[idx]]
       IN  /\ ~Leq(remaining_capacity, Zero)
           /\ Leq(item.weight, remaining_capacity)
           /\ allocations' = Append(allocations, full_allocation(item))
           /\ alloc_src' = Append(alloc_src, sorted_items[idx])
           /\ remaining_capacity' = Sub(remaining_capacity, item.weight)
           /\ total_value' = Add(total_value, item.value)
    /\ idx' = idx + 1
    /\ UNCHANGED <<items, solver, error, last_call, pc, sorted_items, unallocated,
                   unalloc_src, result, prev, test_i, verdicts>>

\* lines 103-127: the item does not fit, take the fraction that does
TakeFraction ==
    /\ InLoop
    /\ LET item == items[sorted_items[idx]]
           allocation == partial_allocation(item, remaining_capacity)
       IN  /\ ~Leq(remaining_capacity, Zero)
           /\ ~Leq(item.weight, remaining_capacity)
           /\ allocations' = Append(allocations, allocation)
           /\ alloc_src' = Append(alloc_src, sorted_items[idx])
           /\ total_value' = Add(total_value, allocation.value_gained)
           /\ unallocated' = Append(unallocated,
                                    partial_unallocated(item, remaining_capacity))
           /\ unalloc_src' = Append(unalloc_src, sorted_items[idx])
           /\ remaining_capacity' = remaining_after_fraction(remaining_capacity)
    /\ idx' = idx + 1
    /\ UNCHANGED <<items, solver, error, last_call, pc, sorted_items, result, prev,
                   test_i, verdicts>>

\* line 129: return; the locals of the call are gone
SolveReturn ==
    /\ pc = "loop" /\ idx > Len(sorted_items)
    /\ result' = Result(total_value, allocations, unallocated)
    /\ prev' = result
    /\ pc' = ReturnTo
    /\ sorted_items' = <<>>
    /\ idx' = 0
    /\ total_value' = Zero
    /\ allocations' = <<>>
    /\ unallocated' = <<>>
    /\ remaining_capacity' = Zero
    /\ UNCHANGED <<items, solver, error, last_call, alloc_src, unalloc_src,
                   test_i, verdicts>>

(* ---------------------------- run_test_cases --------------------------- *)

\* line 327, first iteration
RunTestCases ==
    /\ pc = "main" /\ test_i = 0
    /\ items = <<>> /\ solver = NoSolver
    /\ test_i' = 1
    /\ items' = TestCases[1].items
    /\ pc' = "test"
    /\ UNCHANGED <<solver, error, last_call, locals, alloc_src, unalloc_src,
                   result, prev, verdicts>>

\* line 330; lines 337-338 catch the exception
TestConstruct ==
    /\ pc = "test"
    /\ LET capacity == TestCases[test_i].capacity
           e == init_error(capacity)
       IN  /\ last_call' = [fn |-> "FractionalKnapsack", capacity |-> capacity]
           /\ error' = e
           /\ IF e = NoError
              THEN /\ solver' = FractionalKnapsack(capacity)
                   /\ pc' = "test_solve"
                   /\ verdicts' = verdicts
              ELSE /\ solver' = solver
                   /\ pc' = "test_next"
                   /\ verdicts' = Append(verdicts, "ERROR")
    /\ UNCHANGED <<items, locals, alloc_src, unalloc_src, result, prev, test_i>>

\* lines 333-336
TestCheck ==
    /\ pc = "test_check"
    /\ verdicts' = Append(verdicts,
          IF Lt(AbsR(Sub(result.total_value, TestCases[test_i].expected_value)),
                Tolerance)
          THEN "PASS" ELSE "FAIL")
    /\ pc' = "test_next"
    /\ UNCHANGED <<items, solver, error, last_call, locals, alloc_src, unalloc_src,
                   result, prev, test_i>>

\* line 327, next iteration or the end of the loop
TestNext ==
    /\ pc = "test_next"
    /\ IF test_i < Len(TestCases)
       THEN /\ test_i' = test_i + 1
            /\ items' = TestCases[test_i + 1].items
            /\ pc' = "test"
       ELSE /\ pc' = "tests_done"
            /\ UNCHANGED <<test_i, items>>
    /\ result' = NoResult
    /\ prev' = NoResult
    /\ alloc_src' = <<>>
    /\ unalloc_src' = <<>>
    /\ UNCHANGED <<solver, error, last_call, locals, verdicts>>

(* ------------------------ attribute assignment ------------------------- *)

\* ReliefItem is a plain (not frozen) dataclass: item.value = x and
\* item.weight = x are permitted and do not run __post_init__ again.
SetAttr ==
    /\ pc = "main" /\ test_i = 0 /\ result = NoResult
    /\ \E k \in 1 .. Len(items) :
         \/ \E x \in ValueInputs : items' = [items EXCEPT ![k].value = x]
         \/ \E x \in WeightInputs : items' = [items EXCEPT ![k].weight = x]
    /\ UNCHANGED <<solver, error, last_call, pc, locals, alloc_src, unalloc_src,
                   result, prev, test_i, verdicts>>

(* ---------------------------- specifications --------------------------- *)

Next ==
    \/ NewItem
    \/ NewSolver
    \/ SolveBegin
    \/ SkipItem
    \/ TakeFull
    \/ TakeFraction
    \/ SolveReturn
    \/ RunTestCases
    \/ TestConstruct
    \/ TestCheck
    \/ TestNext

Spec == Init /\ [][Next]_vars

NextAssign == Next \/ SetAttr

SpecAssign == Init /\ [][NextAssign]_vars

(* ------------------------------- claims -------------------------------- *)

\* solve has returned to its caller and the caller holds the triple
AtReturn == pc \in {"main", "test_check"} /\ result # NoResult

RECURSIVE SumOver(_, _)
\* the sum of f[k] over the finite set S of indices
SumOver(f, S) ==
    IF S = {} THEN Zero
    ELSE LET k == CHOOSE x \in S : TRUE
         IN  Add(f[k], SumOver(f, S \ {k}))

SumSeq(f) == SumOver(f, DOMAIN f)

MinR(a, b) == IF Leq(a, b) THEN a ELSE b

ItemWeights == [k \in DOMAIN items |-> items[k].weight]

ItemValues == [k \in DOMAIN items |-> items[k].value]

\* the value of taking the items of S whole and, when j # 0, as much of item j
\* as the capacity left by S admits
CandidateValue(S, j) ==
    LET left == Sub(solver.capacity, SumOver(ItemWeights, S))
    IN  IF j = 0 THEN SumOver(ItemValues, S)
        ELSE Add(SumOver(ItemValues, S),
                 Mul(items[j].value, Div(MinR(left, items[j].weight), items[j].weight)))

\* C1: for a non-empty list of valid items and a capacity > 0, the returned
\* total_value is the sum of value_gained over the returned allocations; the
\* allocations are a feasible fractional assignment (distinct items, fractions
\* in [0,1], value_gained = value * fraction, weight within capacity); and no
\* assignment that takes a set of items whole plus at most one item in part
\* (the vertices of the continuous knapsack, where its optimum lies) is worth
\* more.
C1_TotalValueIsOptimum ==
    (AtReturn /\ items # <<>>) =>
        LET allocs == result.allocations
            n == Len(items)
        IN  /\ result.total_value = SumSeq([p \in DOMAIN allocs |-> allocs[p].value_gained])
            /\ Len(alloc_src) = Len(allocs)
            /\ \A p, q \in DOMAIN alloc_src : alloc_src[p] = alloc_src[q] => p = q
            /\ \A p \in DOMAIN allocs :
                 /\ Leq(Zero, allocs[p].fraction) /\ Leq(allocs[p].fraction, One)
                 /\ allocs[p].value_gained
                      = Mul(items[alloc_src[p]].value, allocs[p].fraction)
            /\ Leq(SumSeq([p \in DOMAIN allocs |->
                             Mul(items[alloc_src[p]].weight, allocs[p].fraction)]),
                   solver.capacity)
            /\ \A S \in SUBSET (1 .. n) : \A j \in (0 .. n) \ S :
                 Leq(SumOver(ItemWeights, S), solver.capacity)
                     => Leq(CandidateValue(S, j), result.total_value)

\* C1 witness: a call on three items whose best-ratio item is not the first
\* of the input and where one item is taken in part
C1_Witness ==
    /\ AtReturn /\ test_i = 0 /\ Len(items) = 3
    /\ Len(alloc_src) >= 2 /\ alloc_src[1] # 1
    /\ \E p \in DOMAIN result.allocations : Lt(result.allocations[p].fraction, One)

\* C2: the weight allocated in total never exceeds the capacity and equals
\* min(capacity, total weight of the input items).
C2_WeightAllocated ==
    AtReturn =>
        LET allocs == result.allocations
            total_weight == SumSeq([p \in DOMAIN allocs |-> allocs[p].weight_allocated])
        IN  /\ Leq(total_weight, solver.capacity)
            /\ total_weight = MinR(solver.capacity, SumSeq(ItemWeights))

\* C2 witness: a call where the items weigh more than the capacity and one is
\* taken in part
C2_Witness ==
    /\ AtReturn /\ test_i = 0
    /\ Lt(solver.capacity, SumSeq(ItemWeights))
    /\ \E p \in DOMAIN result.allocations : Lt(result.allocations[p].fraction, One)

AllocOf(k) == {p \in DOMAIN alloc_src : alloc_src[p] = k}

UnallocOf(k) == {q \in DOMAIN unalloc_src : unalloc_src[q] = k}

FullyAllocated(k) ==
    /\ Cardinality(AllocOf(k)) = 1 /\ UnallocOf(k) = {}
    /\ \A p \in AllocOf(k) :
         /\ result.allocations[p].fraction = One
         /\ result.allocations[p].name = items[k].name

PartiallyAllocated(k) ==
    /\ Cardinality(AllocOf(k)) = 1 /\ Cardinality(UnallocOf(k)) = 1
    /\ \A p \in AllocOf(k), q \in UnallocOf(k) :
         LET a == result.allocations[p]
             u == result.unallocated[q]
         IN  /\ Add(a.fraction, u.fraction_unallocated) = One
             /\ Add(a.weight_allocated, u.weight) = items[k].weight
             /\ a.name = items[k].name /\ u.name = items[k].name

FullyUnallocated(k) ==
    /\ AllocOf(k) = {} /\ Cardinality(UnallocOf(k)) = 1
    /\ \A q \in UnallocOf(k) :
         LET u == result.unallocated[q]
         IN  /\ u.fraction_unallocated = One
             /\ u.weight = items[k].weight
             /\ u.value = items[k].value
             /\ u.name = items[k].name

\* C3: every input item is in exactly one of three categories, fully allocated
\* (one Allocation of fraction 1, no unallocated entry), partially allocated
\* (one Allocation and one unallocated entry, fractions summing to 1, weights
\* summing to the item's weight) or fully unallocated (one unallocated entry of
\* fraction 1 with the full weight and value, no Allocation); no item is in the
\* allocations twice.
C3_ThreeCategories ==
    AtReturn =>
        /\ Len(alloc_src) = Len(result.allocations)
        /\ Len(unalloc_src) = Len(result.unallocated)
        /\ \A k \in DOMAIN items :
             /\ Cardinality(AllocOf(k)) <= 1
             /\ Cardinality({c \in {"full", "partial", "none"} :
                    \/ c = "full" /\ FullyAllocated(k)
                    \/ c = "partial" /\ PartiallyAllocated(k)
                    \/ c = "none" /\ FullyUnallocated(k)}) = 1

\* C3 witness: one call with an item of each category
C3_Witness ==
    /\ AtReturn /\ test_i = 0
    /\ \E k1, k2, k3 \in DOMAIN items :
         FullyAllocated(k1) /\ PartiallyAllocated(k2) /\ FullyUnallocated(k3)

\* src is in the order of a stable descending-ratio sort of items
StableDescending(src) ==
    \A p, q \in DOMAIN src :
        p < q => /\ Leq(ratio(items[src[q]]), ratio(items[src[p]]))
                 /\ ratio(items[src[q]]) = ratio(items[src[p]]) => src[p] < src[q]

\* C4: the allocations and the unallocated list are both in the order of a
\* stable descending-ratio sort of the input: the ratios they carry do not
\* increase along the list, and items of equal ratio keep their input order.
C4_StableDescendingOrder ==
    AtReturn =>
        /\ StableDescending(alloc_src)
        /\ StableDescending(unalloc_src)
        /\ \A p \in DOMAIN result.allocations :
             result.allocations[p].ratio = ratio(items[alloc_src[p]])
        /\ \A q \in DOMAIN result.unallocated :
             result.unallocated[q].ratio = ratio(items[unalloc_src[q]])

\* C4 witness: two different items of equal ratio are both allocated, and the
\* output order is not the input order
C4_Witness ==
    /\ AtReturn /\ test_i = 0
    /\ \E p, q \in DOMAIN alloc_src :
         /\ p < q
         /\ ratio(items[alloc_src[p]]) = ratio(items[alloc_src[q]])
         /\ items[alloc_src[p]].weight # items[alloc_src[q]].weight
    /\ \E q \in DOMAIN unalloc_src : \E k \in DOMAIN items :
         k > unalloc_src[q] /\ AllocOf(k) # {}

\* C5: in the zero-capacity test case (capacity 0, the single item
\* Item1(value=10, weight=5)) the outcome is no error: total value 0 and the
\* item entirely unallocated, fraction_unallocated = 1.0.
C5_ZeroCapacityScenario ==
    (pc = "test_next" /\ test_i = 1) =>
        /\ error = NoError
        /\ verdicts = <<"PASS">>
        /\ result # NoResult
        /\ result.total_value = Zero
        /\ result.allocations = <<>>
        /\ result.unallocated = <<Unallocated("Item1", R(5), R(10), R(2), One)>>

C7_ItemValidated ==
    last_call.fn = "ReliefItem" =>
        IF Leq(last_call.weight, Zero)
        THEN /\ error = ValueError("Weight must be positive for ", last_call.name)
             /\ pc = "raised"
             /\ last_call.name = ItemName(Len(items) + 1)
        ELSE IF Leq(last_call.value, Zero)
        THEN /\ error = ValueError("Value must be positive for ", last_call.name)
             /\ pc = "raised"
             /\ last_call.name = ItemName(Len(items) + 1)
        ELSE /\ error = NoError
             /\ pc = "main"
             /\ items # <<>>
             /\ items[Len(items)]
                  = ReliefItem(last_call.name, last_call.value, last_call.weight)

\* C7 witness: the second item of a list is refused for its weight although
\* its value is invalid too
C7_Witness ==
    /\ last_call.fn = "ReliefItem" /\ Len(items) = 1
    /\ Leq(last_call.weight, Zero) /\ Leq(last_call.value, Zero)
    /\ error = ValueError("Weight must be positive for ", "B")

\* a step of a solve call
SolveStep ==
    /\ pc \in {"main", "test_solve", "loop"}
    /\ pc' = "loop" \/ pc = "loop" \/ result' # result \/ prev' # prev

\* C8: a second solve call on the same solver and the same list returns the
\* same triple as the first, and no step of solve changes the caller's list
\* or the solver's capacity.
C8_SolveIsPure ==
    /\ [](AtReturn /\ prev # NoResult => result = prev)
    /\ [][SolveStep => items' = items /\ solver' = solver]_vars

\* C8 witness: a second call on three items, one of them split, has returned
C8_Witness ==
    /\ AtReturn /\ prev # NoResult /\ Len(items) = 3
    /\ \E p \in DOMAIN result.allocations : Lt(result.allocations[p].fraction, One)
    /\ alloc_src[1] # 1

\* C9: every ReliefItem keeps value > 0 and weight > 0 for its whole lifetime,
\* assignment to its fields included, so that ratio is defined whenever solve
\* reads it.
C9_ItemsStayValid ==
    /\ \A k \in DOMAIN items :
         Lt(Zero, items[k].value) /\ Lt(Zero, items[k].weight)
    /\ error.text # "ZeroDivisionError"

\* how the item at position p of the processing order came out
Outcome(p) ==
    LET k == sorted_items[p]
        a == {x \in DOMAIN alloc_src : alloc_src[x] = k}
        u == {x \in DOMAIN unalloc_src : unalloc_src[x] = k}
    IN  IF a # {} /\ u = {} /\ \A x \in a : allocations[x].fraction = One
        THEN "whole"
        ELSE IF a # {} /\ u # {}
                /\ \A x \in a : /\ Lt(Zero, allocations[x].fraction)
                                /\ Lt(allocations[x].fraction, One)
        THEN "split"
        ELSE IF a = {} /\ u # {}
                /\ \A x \in u : unallocated[x].fraction_unallocated = One
        THEN "nothing"
        ELSE "other"

\* C10: in one solve call at most one item is split; in processing order every
\* item before it is taken whole and every item after it gets nothing; and once
\* the remaining capacity is 0 no later item receives an allocation.
C10_SingleSplit ==
    /\ [](pc = "loop" =>
            /\ \A p \in 1 .. idx - 1 : Outcome(p) \in {"whole", "split", "nothing"}
            /\ Cardinality({p \in 1 .. idx - 1 : Outcome(p) = "split"}) <= 1
            /\ \A p, q \in 1 .. idx - 1 :
                 (p < q /\ Outcome(p) # "whole") => Outcome(q) = "nothing"
            /\ \A p, q \in 1 .. idx - 1 :
                 (p < q /\ Outcome(q) # "nothing") => Outcome(p) = "whole")
    /\ [][(pc = "loop" /\ pc' = "loop" /\ Leq(remaining_capacity, Zero))
             => (allocations' = allocations /\ remaining_capacity' = remaining_capacity)]_vars

\* C10 witness: a whole item, then the split item, then an item with nothing
C10_Witness ==
    /\ pc = "loop" /\ test_i = 0 /\ idx = 4
    /\ Outcome(1) = "whole" /\ Outcome(2) = "split" /\ Outcome(3) = "nothing"

====
